---------------------------- MODULE Spec2Model ----------------------------
(***************************************************************************)
(* LatestBrowsingHistory: recent browsing history of Chrome and Edge.      *)
(*                                                                         *)
(* Model of src/LatestBrowsingHistory/LatestBrowsingHistory.cpp.           *)
(*                                                                         *)
(* Numbers.  The program computes with 64-bit integers (int64_t, time_t)   *)
(* whose values (11644473600 and beyond) do not fit the model checker's    *)
(* 32-bit integers, so a number is written in base 1000000:                *)
(*   a time in seconds is   <<hi, lo>>     = hi * 10^6 + lo                *)
(*   a WebKit timestamp is  <<hi, lo, us>> = (hi * 10^6 + lo) * 10^6 + us  *)
(* with 0 <= lo, us < 10^6 and hi any integer (so the value is negative    *)
(* exactly when hi < 0).  No operation of the program can overflow 64 bits *)
(* (|webkitTime / 1000000| < 2^44), and difftime's doubles are exact below *)
(* 2^53, so the arithmetic below is that of the program.                   *)
(***************************************************************************)
EXTENDS Integers, Sequences, FiniteSets, TLC

\* Microseconds per second: the divisor of line 19 (and the base of the digits).
Million == 1000000

\* 1164447360: the offset with its last digit lost.
WebKitEpochOffsetShort == <<1164, 447360>>

\* 11644473600LL of line 19: seconds from 1601-01-01 to 1970-01-01.
WebKitEpochOffset == <<11644, 473600>>

\* ---------------------------------------------------------------- arithmetic
\* a + b, a - b, a <= b on seconds <<hi, lo>>.
Add(a, b) ==
    LET lo == a[2] + b[2]
    IN  IF lo >= Million THEN <<a[1] + b[1] + 1, lo - Million>>
                         ELSE <<a[1] + b[1], lo>>

Sub(a, b) ==
    LET lo == a[2] - b[2]
    IN  IF lo < 0 THEN <<a[1] - b[1] - 1, lo + Million>>
                  ELSE <<a[1] - b[1], lo>>

Leq(a, b) == a[1] < b[1] \/ (a[1] = b[1] /\ a[2] <= b[2])

\* a <= b on timestamps <<hi, lo, us>>: the order of ORDER BY v.visit_time.
Leq3(a, b) ==
    \/ a[1] < b[1]
    \/ a[1] = b[1] /\ a[2] < b[2]
    \/ a[1] = b[1] /\ a[2] = b[2] /\ a[3] <= b[3]

\* webkitTime / 1000000 rounded toward minus infinity (not what C++ does).
FloorDivMillion(t) == <<t[1], t[2]>>

\* webkitTime / 1000000 in C++: the quotient is truncated toward zero, so a
\* negative value with a non-zero remainder is one more than the floor.
DivMillion(t) ==
    IF t[1] < 0 /\ t[3] # 0 THEN Add(FloorDivMillion(t), <<0, 1>>)
                            ELSE FloorDivMillion(t)

ConvertWebKitToUnixTimeFloor(webkitTime) ==
    Sub(FloorDivMillion(webkitTime), WebKitEpochOffset)

\* time_t ConvertWebKitToUnixTime(int64_t webkitTime)
ConvertWebKitToUnixTime(webkitTime) ==
    Sub(DivMillion(webkitTime), WebKitEpochOffset)

\* double difftime(time_t end, time_t start): end - start, exact here.
difftime(end, start) == Sub(end, start)

WithinRangeStrict(currentTime_, visitTimeUnix, timeRange) ==
    /\ Leq(difftime(currentTime_, visitTimeUnix), timeRange)
    /\ difftime(currentTime_, visitTimeUnix) # timeRange

\* The condition of line 134: difftime(currentTime, visitTimeUnix) <= timeRangeInSeconds
WithinRange(currentTime_, visitTimeUnix, timeRange) ==
    Leq(difftime(currentTime_, visitTimeUnix), timeRange)

\* ------------------------------------------------------------------ strings
\* A UTF-8 string is a sequence of bytes (0..255), a wide string a sequence of
\* UTF-16 code units.  sqlite3_column_text returns a null pointer for an SQL
\* NULL: NULL is that pointer, which is no string.
NULL == <<-1>>

IsCont(b, lo, hi) == b >= lo /\ b <= hi

\* Lowest admissible second byte after lead byte b (overlong forms are invalid).
SecondLo(b) == IF b = 224 THEN 160 ELSE IF b = 240 THEN 144 ELSE 128

\* Highest admissible second byte after lead byte b (surrogates, > U+10FFFF).
SecondHi(b) == IF b = 237 THEN 159 ELSE IF b = 244 THEN 143 ELSE 191

\* MultiByteToWideChar(CP_UTF8, 0, ...): UTF-8 to UTF-16; with flags 0 an
\* invalid byte becomes U+FFFD and the conversion goes on.
RECURSIVE Utf8ToUtf16(_)
Utf8ToUtf16(s) ==
    IF s = <<>> THEN <<>>
    ELSE
      LET b  == s[1]
          n  == Len(s)
          c2 == n >= 2 /\ IsCont(s[2], SecondLo(b), SecondHi(b))
          c3 == c2 /\ n >= 3 /\ IsCont(s[3], 128, 191)
          c4 == c3 /\ n >= 4 /\ IsCont(s[4], 128, 191)
      IN  IF b < 128 THEN <<b>> \o Utf8ToUtf16(Tail(s))
          ELSE IF b >= 194 /\ b <= 223 /\ c2
            THEN <<(b - 192) * 64 + (s[2] - 128)>> \o Utf8ToUtf16(SubSeq(s, 3, n))
          ELSE IF b >= 224 /\ b <= 239 /\ c3
            THEN <<(b - 224) * 4096 + (s[2] - 128) * 64 + (s[3] - 128)>>
                 \o Utf8ToUtf16(SubSeq(s, 4, n))
          ELSE IF b >= 240 /\ b <= 244 /\ c4
            THEN LET cp == (b - 240) * 262144 + (s[2] - 128) * 4096
                           + (s[3] - 128) * 64 + (s[4] - 128) - 65536
                 IN  <<55296 + (cp \div 1024), 56320 + (cp % 1024)>>
                     \o Utf8ToUtf16(SubSeq(s, 5, n))
          ELSE <<65533>> \o Utf8ToUtf16(Tail(s))

\* MultiByteToWideChar with cbMultiByte = -1 and no output buffer: the number
\* of code units needed, the terminating null included.
WideCharCount(utf8Str) == Len(Utf8ToUtf16(utf8Str)) + 1

\* std::wstring ConvertUtf8ToWide(const std::string& utf8Str): the result holds
\* wideCharCount units, so it ends with the converted terminating null.
ConvertUtf8ToWide(utf8Str) ==
    IF utf8Str = <<>> THEN <<>>
    ELSE IF WideCharCount(utf8Str) = 0 THEN <<>>
    ELSE Utf8ToUtf16(utf8Str) \o <<0>>

\* wprintf's %s on wstring::c_str(): the units before the first null.
RECURSIVE c_str(_)
c_str(w) == IF w = <<>> \/ w[1] = 0 THEN <<>> ELSE <<w[1]>> \o c_str(Tail(w))

\* ------------------------------------------------------------ calendar time
\* gmtime_s accepts 1970-01-01 00:00:00 .. 3000-12-31 23:59:59 UTC.
GmtimeMax == <<32535, 215999>>

GmtimeValid(unixTime) == unixTime[1] >= 0 /\ Leq(unixTime, GmtimeMax)

\* Days since 1970-01-01 and second of the day of a valid time:
\* 10^6 = 11 * 86400 + 49600.
DaysOf(unixTime) == 11 * unixTime[1] + ((unixTime[1] * 49600 + unixTime[2]) \div 86400)
SecondOfDay(unixTime) == (unixTime[1] * 49600 + unixTime[2]) % 86400

\* The proleptic Gregorian date <<year, month, day>> of a day number.
CivilFromDays(days) ==
    LET z   == days + 719468
        era == z \div 146097
        doe == z - era * 146097
        yoe == (doe - (doe \div 1460) + (doe \div 36524) - (doe \div 146096)) \div 365
        doy == doe - (365 * yoe + (yoe \div 4) - (yoe \div 100))
        mp  == (5 * doy + 2) \div 153
        d   == doy - ((153 * mp + 2) \div 5) + 1
        m   == IF mp < 10 THEN mp + 3 ELSE mp - 9
        y   == yoe + era * 400 + (IF m <= 2 THEN 1 ELSE 0)
    IN  <<y, m, d>>

\* std::wstring FormatUnixTimeToUTC(time_t unixTime): the fields of
\* "%Y-%m-%d %H:%M:%S" as <<Y, m, d, H, M, S>>, or "Invalid time".
FormatUnixTimeToUTC(unixTime) ==
    IF ~GmtimeValid(unixTime) THEN <<"Invalid time">>
    ELSE LET sod == SecondOfDay(unixTime)
         IN  CivilFromDays(DaysOf(unixTime))
             \o <<sod \div 3600, (sod % 3600) \div 60, sod % 60>>

\* -------------------------------------------------------------------- inputs
\* Rows the two queries return in total, in one run of the program.
MaxRows == 3

\* The two calls of PrintUrlsFromDatabase in wmain: 1 is Chrome, 2 is Edge.
Stores == {1, 2}

\* chromeHistoryPath and edgeHistoryPath (under the user profile, not in the
\* temporary directory).
dbPathOf == <<"Chrome/User Data/Default/History", "Edge/User Data/Default/History">>

\* Names GetTempFileNameW can hand out in the temporary directory.
TempNames == {"Temp/dbcopy1.tmp", "Temp/dbcopy2.tmp"}

Paths == {dbPathOf[1], dbPathOf[2]} \cup TempNames

\* What a path holds: nothing, the empty file GetTempFileNameW creates, a file
\* that is no history database, or a history database.
SourceContents == {"absent", "notdb", "history"}
Contents == SourceContents \cup {"empty"}

\* Readings of the clock: 2024-01-01 00:10:00 UTC, and 1601-01-01 00:10:00 UTC
\* (ten minutes after the WebKit epoch, where timestamps change sign).
Ref2024 == <<1704, 67800>>
Ref1601 == <<-11645, 527000>>
RefTimes == <<Ref2024, Ref1601>>

UrlAscii == <<97, 46, 99, 111>>
UrlUtf8  == <<195, 169>>
UrlBad   == <<97, 255>>
UrlEmpty == <<>>

\* Rows (u.url, v.visit_time) a history database may hold.
Rows ==
    { [url |-> UrlAscii, visit_time |-> <<13348, 541340, 0>>],       \* 2024-01-01 00:09:00
      [url |-> NULL,     visit_time |-> <<13348, 541340, 0>>],
      [url |-> UrlUtf8,  visit_time |-> <<13348, 540800, 1>>],       \* 00:00:00.000001
      [url |-> UrlAscii, visit_time |-> <<13348, 540800, 0>>],       \* 00:00:00
      [url |-> UrlBad,   visit_time |-> <<13348, 540799, 999999>>],  \* 2023-12-31 23:59:59.999999
      [url |-> NULL,     visit_time |-> <<13348, 540799, 999999>>],
      [url |-> UrlEmpty, visit_time |-> <<0, 0, 0>>],                \* 1601-01-01 00:00:00
      [url |-> UrlAscii, visit_time |-> <<-1, 999999, 999999>>] }    \* one microsecond before

\* --------------------------------------------------------------------- state
VARIABLES
    pc,                  \* where the program is
    call,                \* the call of PrintUrlsFromDatabase in progress (0: none yet)
    currentTime,         \* wmain's currentTime
    timeRangeInSeconds,  \* wmain's timeRangeInSeconds
    files,               \* the file system: what each path holds
    tempDbPath,          \* per call: tempDbPath ("" until GetTempFileNameW succeeds)
    db,                  \* per call: the sqlite3* connection
    stmt,                \* per call: the sqlite3_stmt*
    fetched,             \* per call: the rows sqlite3_step has returned, in order
    out,                 \* per call: the "URL: ..., Visit Time (UTC): ..." lines printed
    diag,                \* per call: the failure messages printed
    steps                \* per call: how often and how each step was attempted

vars == <<pc, call, currentTime, timeRangeInSeconds, files, tempDbPath, db, stmt,
          fetched, out, diag, steps>>

NoSteps == [copy |-> "none", open |-> "none", prepare |-> "none",
            copyN |-> 0, openN |-> 0, prepareN |-> 0, returned |-> FALSE]

\* The state when wmain is entered: the two history files hold anything, the
\* temporary directory holds none of the names this run will be given.
Init ==
    /\ pc = "wmain"
    /\ call = 0
    /\ currentTime = <<0, 0>>
    /\ timeRangeInSeconds = <<0, 0>>
    /\ \E c1 \in SourceContents, c2 \in SourceContents :
         files = [p \in Paths |-> IF p = dbPathOf[1] THEN c1
                                  ELSE IF p = dbPathOf[2] THEN c2 ELSE "absent"]
    /\ tempDbPath = [s \in Stores |-> ""]
    /\ db = [s \in Stores |-> "none"]
    /\ stmt = [s \in Stores |-> "none"]
    /\ fetched = [s \in Stores |-> <<>>]
    /\ out = [s \in Stores |-> <<>>]
    /\ diag = [s \in Stores |-> <<>>]
    /\ steps = [s \in Stores |-> NoSteps]

\* ------------------------------------------------------------------- actions
\* time_t timeRangeInSeconds = 10 * 60;
TenMinutes == <<0, 10 * 60>>

\* wmain, when GetUserProfilePath returns the empty string: return 1.
wmainNoProfile ==
    /\ pc = "wmain"
    /\ \E i \in DOMAIN RefTimes : currentTime' = RefTimes[i]
    /\ timeRangeInSeconds' = TenMinutes
    /\ pc' = "exit1"
    /\ UNCHANGED <<call, files, tempDbPath, db, stmt, fetched, out, diag, steps>>

\* wmain up to the first call of PrintUrlsFromDatabase.
wmainBegin ==
    /\ pc = "wmain"
    /\ \E i \in DOMAIN RefTimes : currentTime' = RefTimes[i]
    /\ timeRangeInSeconds' = TenMinutes
    /\ pc' = "copy"
    /\ call' = 1
    /\ UNCHANGED <<files, tempDbPath, db, stmt, fetched, out, diag, steps>>

AfterReturnStopOnFailure ==
    IF call = 1 /\ diag'[1] # <<>> THEN [pc |-> "done", call |-> 1]
    ELSE IF call = 1 THEN [pc |-> "copy", call |-> 2]
    ELSE [pc |-> "done", call |-> 2]

\* wmain after a call of PrintUrlsFromDatabase has returned: the Edge call
\* follows the Chrome call, return 0 follows the Edge call.
AfterReturn ==
    IF call = 1 THEN [pc |-> "copy", call |-> 2] ELSE [pc |-> "done", call |-> 2]

Return ==
    /\ pc' = AfterReturn.pc
    /\ call' = AfterReturn.call

\* CopyDatabaseToTemp returns false because GetTempPathW or GetTempFileNameW
\* fails: no file was created.  The caller prints its message and returns.
CopyNoTempFile ==
    /\ pc = "copy"
    /\ steps' = [steps EXCEPT ![call] =
                   [@ EXCEPT !.copy = "failed", !.copyN = @ + 1, !.returned = TRUE]]
    /\ diag' = [diag EXCEPT ![call] =
                   Append(@, "Failed to copy database to temporary file")]
    /\ Return
    /\ UNCHANGED <<currentTime, timeRangeInSeconds, files, tempDbPath, db, stmt,
                   fetched, out>>

\* GetTempFileNameW (uUnique = 0) creates an empty file under a name not in
\* use and tempDbPath is set to it; copy_file then throws (the source is
\* missing, is locked, the disk is full), the error is printed and false is
\* returned; the caller prints its message and returns.
CopyFailed ==
    /\ pc = "copy"
    /\ \E n \in TempNames :
         /\ files[n] = "absent"
         /\ files' = [files EXCEPT ![n] = "empty"]
         /\ tempDbPath' = [tempDbPath EXCEPT ![call] = n]
    /\ steps' = [steps EXCEPT ![call] =
                   [@ EXCEPT !.copy = "failed", !.copyN = @ + 1, !.returned = TRUE]]
    /\ diag' = [diag EXCEPT ![call] =
                   @ \o <<"Failed to copy database",
                          "Failed to copy database to temporary file">>]
    /\ Return
    /\ UNCHANGED <<currentTime, timeRangeInSeconds, db, stmt, fetched, out>>

\* CopyDatabaseToTemp returns true: the new temporary file holds what the
\* source holds.
CopyOk ==
    /\ pc = "copy"
    /\ files[dbPathOf[call]] # "absent"
    /\ \E n \in TempNames :
         /\ files[n] = "absent"
         /\ files' = [files EXCEPT ![n] = files[dbPathOf[call]]]
         /\ tempDbPath' = [tempDbPath EXCEPT ![call] = n]
    /\ steps' = [steps EXCEPT ![call] = [@ EXCEPT !.copy = "ok", !.copyN = @ + 1]]
    /\ pc' = "open"
    /\ UNCHANGED <<call, currentTime, timeRangeInSeconds, db, stmt, fetched, out, diag>>

OpenFailedFallThrough ==
    /\ pc = "open"
    /\ db' = [db EXCEPT ![call] = "unopened"]
    /\ steps' = [steps EXCEPT ![call] = [@ EXCEPT !.open = "failed", !.openN = @ + 1]]
    /\ diag' = [diag EXCEPT ![call] = Append(@, "Failed to open database")]
    /\ pc' = "prepare"
    /\ UNCHANGED <<call, currentTime, timeRangeInSeconds, files, tempDbPath, stmt,
                   fetched, out>>

\* sqlite3_open16 does not return SQLITE_OK (the file cannot be opened, no
\* memory): db is the handle SQLite hands back on failure, which still has to
\* be passed to sqlite3_close.  The message is printed and the function returns.
OpenFailed ==
    /\ pc = "open"
    /\ db' = [db EXCEPT ![call] = "unopened"]
    /\ steps' = [steps EXCEPT ![call] =
                   [@ EXCEPT !.open = "failed", !.openN = @ + 1, !.returned = TRUE]]
    /\ diag' = [diag EXCEPT ![call] = Append(@, "Failed to open database")]
    /\ Return
    /\ UNCHANGED <<currentTime, timeRangeInSeconds, files, tempDbPath, stmt,
                   fetched, out>>

\* sqlite3_open16 returns SQLITE_OK (the file's content is not read yet).
OpenOk ==
    /\ pc = "open"
    /\ db' = [db EXCEPT ![call] = "open"]
    /\ steps' = [steps EXCEPT ![call] = [@ EXCEPT !.open = "ok", !.openN = @ + 1]]
    /\ pc' = "prepare"
    /\ UNCHANGED <<call, currentTime, timeRangeInSeconds, files, tempDbPath, stmt,
                   fetched, out, diag>>

\* sqlite3_prepare_v2 fails: the copy is no database, or has no urls and
\* visits tables.  The message is printed, the connection closed.
PrepareFailed ==
    /\ pc = "prepare"
    /\ files[tempDbPath[call]] # "history"
    /\ db' = [db EXCEPT ![call] = "closed"]
    /\ steps' = [steps EXCEPT ![call] =
                   [@ EXCEPT !.prepare = "failed", !.prepareN = @ + 1, !.returned = TRUE]]
    /\ diag' = [diag EXCEPT ![call] = Append(@, "Failed to prepare statement")]
    /\ Return
    /\ UNCHANGED <<currentTime, timeRangeInSeconds, files, tempDbPath, stmt,
                   fetched, out>>

\* sqlite3_prepare_v2 returns SQLITE_OK.
PrepareOk ==
    /\ pc = "prepare"
    /\ files[tempDbPath[call]] = "history"
    /\ stmt' = [stmt EXCEPT ![call] = "prepared"]
    /\ steps' = [steps EXCEPT ![call] = [@ EXCEPT !.prepare = "ok", !.prepareN = @ + 1]]
    /\ pc' = "step"
    /\ UNCHANGED <<call, currentTime, timeRangeInSeconds, files, tempDbPath, db,
                   fetched, out, diag>>

\* The query's next row: any row not newer than the last one returned
\* (ORDER BY v.visit_time DESC).
NextRows ==
    { r \in Rows :
        /\ Len(fetched[1]) + Len(fetched[2]) < MaxRows
        /\ \/ fetched[call] = <<>>
           \/ Leq3(r.visit_time, fetched[call][Len(fetched[call])].visit_time) }

\* The test of line 134 on a row.
InRange(r) ==
    WithinRange(currentTime, ConvertWebKitToUnixTime(r.visit_time), timeRangeInSeconds)

\* The line wprintf prints for a row whose url text is utf8 (row: the number
\* of the row among those fetched, kept to tell which row a line is for).
Line(utf8, r) ==
    [url  |-> c_str(ConvertUtf8ToWide(utf8)),
     time |-> FormatUnixTimeToUTC(ConvertWebKitToUnixTime(r.visit_time)),
     row  |-> Len(fetched[call]) + 1]

PrintedFirst(lines, line) == <<line>> \o lines

\* The console after one more line.
Printed(lines, line) == Append(lines, line)

\* One turn of the loop on a row outside the time range: nothing is printed.
StepRowSkip ==
    /\ pc = "step"
    /\ \E r \in NextRows :
         /\ ~InRange(r)
         /\ fetched' = [fetched EXCEPT ![call] = Append(@, r)]
    /\ UNCHANGED <<pc, call, currentTime, timeRangeInSeconds, files, tempDbPath, db,
                   stmt, out, diag, steps>>

\* One turn of the loop on a row in the time range whose url is text.
StepRowPrint ==
    /\ pc = "step"
    /\ \E r \in NextRows :
         /\ InRange(r)
         /\ r.url # NULL
         /\ fetched' = [fetched EXCEPT ![call] = Append(@, r)]
         /\ out' = [out EXCEPT ![call] = Printed(@, Line(r.url, r))]
    /\ UNCHANGED <<pc, call, currentTime, timeRangeInSeconds, files, tempDbPath, db,
                   stmt, diag, steps>>

\* One turn of the loop on a row in the time range whose url is NULL:
\* ConvertUtf8ToWide(foundUrlUtf8) builds a std::string from a null pointer,
\* which is undefined.  The process dies there (an access violation in strlen,
\* an uncaught std::logic_error), or the string comes out empty and the line
\* is printed with no url.
StepRowNullUrl ==
    /\ pc = "step"
    /\ \E r \in NextRows :
         /\ InRange(r)
         /\ r.url = NULL
         /\ fetched' = [fetched EXCEPT ![call] = Append(@, r)]
         /\ \/ /\ pc' = "crashed"
               /\ out' = out
            \/ /\ pc' = pc
               /\ out' = [out EXCEPT ![call] = Printed(@, Line(<<>>, r))]
    /\ UNCHANGED <<call, currentTime, timeRangeInSeconds, files, tempDbPath, db,
                   stmt, diag, steps>>

\* sqlite3_step returns something other than SQLITE_ROW: the loop ends.
StepDone ==
    /\ pc = "step"
    /\ pc' = "finalize"
    /\ UNCHANGED <<call, currentTime, timeRangeInSeconds, files, tempDbPath, db,
                   stmt, fetched, out, diag, steps>>

\* sqlite3_finalize(stmt);
Finalize ==
    /\ pc = "finalize"
    /\ stmt' = [stmt EXCEPT ![call] = "finalized"]
    /\ pc' = "close"
    /\ UNCHANGED <<call, currentTime, timeRangeInSeconds, files, tempDbPath, db,
                   fetched, out, diag, steps>>

\* sqlite3_close(db);
Close ==
    /\ pc = "close"
    /\ db' = [db EXCEPT ![call] = "closed"]
    /\ pc' = "remove"
    /\ UNCHANGED <<call, currentTime, timeRangeInSeconds, files, tempDbPath, stmt,
                   fetched, out, diag, steps>>

RemovedSource == dbPathOf[call]

\* The path std::filesystem::remove is given on line 150.
Removed == tempDbPath[call]

\* std::filesystem::remove(tempDbPath); and the function returns.
Remove ==
    /\ pc = "remove"
    /\ files' = [files EXCEPT ![Removed] = "absent"]
    /\ steps' = [steps EXCEPT ![call] = [@ EXCEPT !.returned = TRUE]]
    /\ Return
    /\ UNCHANGED <<currentTime, timeRangeInSeconds, tempDbPath, db, stmt, fetched,
                   out, diag>>

Next ==
    \/ wmainNoProfile
    \/ wmainBegin
    \/ CopyNoTempFile
    \/ CopyFailed
    \/ CopyOk
    \/ OpenFailed
    \/ OpenOk
    \/ PrepareFailed
    \/ PrepareOk
    \/ StepRowSkip
    \/ StepRowPrint
    \/ StepRowNullUrl
    \/ StepDone
    \/ Finalize
    \/ Close
    \/ Remove

Spec == Init /\ [][Next]_vars

\* ------------------------------------------------- the specification's terms
\* The specification's words, computed independently of the program's code:
\* decode(t) = t / 1000000 - 11644473600 with the quotient truncated toward
\* zero, obtained here on the magnitude of t (sign and magnitude), and the
\* recency predicate referenceTime - decode(t) <= windowDuration.
Neg(a) == IF a[2] = 0 THEN <<0 - a[1], 0>> ELSE <<0 - a[1] - 1, Million - a[2]>>

Neg3(t) ==
    IF t[3] = 0 THEN Neg(<<t[1], t[2]>>) \o <<0>>
    ELSE Sub(Neg(<<t[1], t[2]>>), <<0, 1>>) \o <<Million - t[3]>>

TruncatedSeconds(t) ==
    IF t[1] < 0 THEN Neg(<<Neg3(t)[1], Neg3(t)[2]>>) ELSE <<t[1], t[2]>>

Decode(t) == Sub(TruncatedSeconds(t), <<11644, 473600>>)

Difference(t) == Sub(currentTime, Decode(t))

Recent(r) == Leq(Difference(r.visit_time), timeRangeInSeconds)

\* t - 1: the timestamp one microsecond older.
OneMicrosecondOlder(t) ==
    IF t[3] > 0 THEN <<t[1], t[2], t[3] - 1>>
    ELSE IF t[2] > 0 THEN <<t[1], t[2] - 1, Million - 1>>
    ELSE <<t[1] - 1, Million - 1, Million - 1>>

\* t is a positive whole number of seconds.
PositiveWholeSecond(t) == t[3] = 0 /\ t[1] >= 0 /\ (t[1] > 0 \/ t[2] > 0)

RowNumbers(s) == 1..Len(fetched[s])
EmittedRows(s) == { out[s][k].row : k \in 1..Len(out[s]) }
Readable(s, i) == fetched[s][i].url # NULL
Failed(s) ==
    steps[s].copy = "failed" \/ steps[s].open = "failed" \/ steps[s].prepare = "failed"

\* The temporary file of call s is still there, and is not the file a later
\* call was given under the same name.
Residual(s) ==
    /\ tempDbPath[s] # ""
    /\ files[tempDbPath[s]] # "absent"
    /\ \A t \in Stores : t > s => tempDbPath[t] # tempDbPath[s]

\* -------------------------------------------------------------------- claims
\* C1 (snapshot cleanup): once a call of PrintUrlsFromDatabase has returned,
\* on any exit path, the temporary file it was given no longer exists.
C1_SnapshotCleanup ==
    \A s \in Stores : steps[s].returned => ~Residual(s)

\* C2 as stated (window boundary): a row whose difference to the reference
\* time is exactly the window is emitted, and the row one microsecond older
\* is not emitted.
C2_WindowBoundaryMicrosecond ==
    \A s1 \in Stores, s2 \in Stores : \A i \in RowNumbers(s1), j \in RowNumbers(s2) :
        ( /\ Readable(s1, i) /\ Readable(s2, j)
          /\ Difference(fetched[s1][i].visit_time) = timeRangeInSeconds
          /\ fetched[s2][j].visit_time = OneMicrosecondOlder(fetched[s1][i].visit_time) )
        => (i \in EmittedRows(s1) /\ j \notin EmittedRows(s2))

\* C2 amended (window boundary): a row whose difference to the reference time
\* is exactly the window is emitted; the row one microsecond older is not
\* emitted when the boundary timestamp is a positive whole number of seconds.
C2_WindowBoundaryWholeSecond ==
    \A s1 \in Stores : \A i \in RowNumbers(s1) :
        ( /\ Readable(s1, i)
          /\ Difference(fetched[s1][i].visit_time) = timeRangeInSeconds )
        => /\ i \in EmittedRows(s1)
           /\ \A s2 \in Stores : \A j \in RowNumbers(s2) :
                ( /\ Readable(s2, j)
                  /\ PositiveWholeSecond(fetched[s1][i].visit_time)
                  /\ fetched[s2][j].visit_time
                       = OneMicrosecondOlder(fetched[s1][i].visit_time) )
                => j \notin EmittedRows(s2)

\* A boundary row on a positive whole second was emitted and the row one
\* microsecond older was fetched and not emitted.
C2_Witness ==
    \E s \in Stores : \E i \in RowNumbers(s), j \in RowNumbers(s) :
        /\ Readable(s, i) /\ Readable(s, j)
        /\ Difference(fetched[s][i].visit_time) = timeRangeInSeconds
        /\ PositiveWholeSecond(fetched[s][i].visit_time)
        /\ fetched[s][j].visit_time = OneMicrosecondOlder(fetched[s][i].visit_time)
        /\ i \in EmittedRows(s)
        /\ j \notin EmittedRows(s)

\* The scenario of C3: the reference time is 2024-01-01 00:10:00 UTC, the
\* window 600 s, and the loop of call s has ended on a store holding a visit
\* at 00:09:00 and a visit at 00:00:00.
Scenario(s) ==
    /\ currentTime = <<1704, 67800>>
    /\ timeRangeInSeconds = <<0, 600>>
    /\ steps[s].returned
    /\ fetched[s] = << [url |-> UrlAscii, visit_time |-> <<13348, 541340, 0>>],
                       [url |-> UrlAscii, visit_time |-> <<13348, 540800, 0>>] >>

\* C3 as stated (scenario): only the 00:09:00 visit is emitted, the 00:00:00
\* visit is not.
C3_ScenarioOnlySecondVisit ==
    \A s \in Stores : Scenario(s) => EmittedRows(s) = {1}

\* C3 amended (scenario): both visits are emitted, the 00:09:00 visit first
\* and then the 00:00:00 visit, which lies exactly on the inclusive boundary.
C3_ScenarioBothVisits ==
    \A s \in Stores : Scenario(s) =>
        out[s] = << [url |-> UrlAscii, time |-> <<2024, 1, 1, 0, 9, 0>>, row |-> 1],
                    [url |-> UrlAscii, time |-> <<2024, 1, 1, 0, 0, 0>>, row |-> 2] >>

C3_Witness == \E s \in Stores : Scenario(s) /\ Len(out[s]) = 2

\* C4 (skip on malformed row): a row whose url is NULL is skipped: no line is
\* emitted for it and the iteration is not aborted, so once the call has
\* returned there is exactly one line per well-formed row in the window.
C4_SkipNullUrl ==
    /\ pc # "crashed"
    /\ \A s \in Stores :
         /\ \A i \in RowNumbers(s) : ~Readable(s, i) => i \notin EmittedRows(s)
         /\ steps[s].returned =>
              Len(out[s]) = Cardinality({ i \in RowNumbers(s) :
                                            Readable(s, i) /\ Recent(fetched[s][i]) })

\* C5 (store independence): a call that fails at the copy, the open or the
\* prepare prints a diagnostic and emits nothing; whatever way the first call
\* returns, the second call is made; and when the program has ended both calls
\* were made and have returned, each store that did not fail having emitted
\* all of its well-formed rows in the window.
C5_StoreIndependence ==
    /\ \A s \in Stores : Failed(s) => diag[s] # <<>> /\ out[s] = <<>> /\ steps[s].returned
    /\ steps[1].returned => call = 2
    /\ pc = "done" =>
         \A s \in Stores :
            /\ steps[s].copyN = 1
            /\ steps[s].returned
            /\ ~Failed(s) =>
                 \A i \in RowNumbers(s) :
                    (Readable(s, i) /\ Recent(fetched[s][i])) => i \in EmittedRows(s)

\* The program has ended, one call failed, the other emitted lines (either order).
C5_Witness ==
    /\ pc = "done"
    /\ \E s \in Stores, t \in Stores :
         s # t /\ Failed(s) /\ ~Failed(t) /\ Len(out[t]) = 2

\* C6 (no source mutation): no step changes what a source path holds; every
\* path a step writes or deletes is a temporary name, the call's tempDbPath.
C6_NoSourceMutation ==
    [][ \A p \in Paths :
          files'[p] # files[p] => (p \in TempNames /\ p = tempDbPath'[call]) ]_vars

\* A call on a history database has copied it, read it and removed the copy.
C6_Witness ==
    /\ steps[1].returned
    /\ steps[1].prepare = "ok"
    /\ files[dbPathOf[1]] = "history"
    /\ files[tempDbPath[1]] = "absent"

\* C7 (recency predicate): a fetched row whose url is readable has been
\* emitted if and only if referenceTime - decode(visit_time) <= windowDuration,
\* decode truncating toward zero; so every visit later than the reference
\* time is emitted.
C7_RecencyPredicate ==
    \A s \in Stores : \A i \in RowNumbers(s) :
        Readable(s, i) => (i \in EmittedRows(s) <=> Recent(fetched[s][i]))

\* Emitted: a visit later than the reference time, and a visit with a negative
\* timestamp that is no whole number of seconds (where truncation toward zero
\* and rounding down differ) exactly on the window boundary.
C7_Witness ==
    \E s \in Stores : \E i \in RowNumbers(s), j \in RowNumbers(s) :
        /\ Readable(s, i) /\ Readable(s, j)
        /\ Difference(fetched[s][i].visit_time)[1] < 0
        /\ i \in EmittedRows(s)
        /\ fetched[s][j].visit_time[1] < 0
        /\ fetched[s][j].visit_time[3] # 0
        /\ Difference(fetched[s][j].visit_time) = timeRangeInSeconds
        /\ j \in EmittedRows(s)

\* C8 (output ordering): the lines of a call are for rows the query returned,
\* each in the window, in the order the rows were returned and none twice, so
\* in non-increasing order of visit timestamp; and no well-formed row in the
\* window is left out.
C8_OutputOrdering ==
    \A s \in Stores :
        /\ \A k \in 1..Len(out[s]) :
             /\ out[s][k].row \in RowNumbers(s)
             /\ Recent(fetched[s][out[s][k].row])
        /\ \A k \in 1..Len(out[s]), l \in 1..Len(out[s]) :
             k < l => /\ out[s][k].row < out[s][l].row
                      /\ Leq3(fetched[s][out[s][l].row].visit_time,
                              fetched[s][out[s][k].row].visit_time)
        /\ \A i \in RowNumbers(s) :
             (Readable(s, i) /\ Recent(fetched[s][i])) => i \in EmittedRows(s)

\* A call has returned having emitted two lines of different timestamps and
\* skipped a row.
C8_Witness ==
    \E s \in Stores :
        /\ steps[s].returned
        /\ Len(out[s]) = 2
        /\ Len(fetched[s]) = 3
        /\ fetched[s][out[s][1].row].visit_time # fetched[s][out[s][2].row].visit_time

\* C9 (step ordering without retries): in a call the copy, the open and the
\* prepare are each attempted at most once; the open only after the copy
\* succeeded, the prepare only after the open succeeded, rows are fetched only
\* after the prepare succeeded; after a failed step there is no later step and
\* no line.
C9_StepOrdering ==
    \A s \in Stores :
        /\ steps[s].copyN <= 1 /\ steps[s].openN <= 1 /\ steps[s].prepareN <= 1
        /\ steps[s].openN = 1 => steps[s].copy = "ok"
        /\ steps[s].prepareN = 1 => steps[s].open = "ok"
        /\ (fetched[s] # <<>> \/ out[s] # <<>> \/ stmt[s] # "none")
             => steps[s].prepare = "ok"
        /\ steps[s].copy = "failed" => steps[s].openN = 0
        /\ steps[s].open = "failed" => steps[s].prepareN = 0
        /\ Failed(s) => fetched[s] = <<>> /\ out[s] = <<>> /\ steps[s].returned

\* The first call failed at the open and returned; the second call went
\* through its three steps and fetched rows.
C9_Witness ==
    /\ steps[1].open = "failed"
    /\ steps[1].returned
    /\ steps[2].prepare = "ok"
    /\ fetched[2] # <<>>

\* C10 (database handle lifecycle): when a call has returned, the connection
\* sqlite3_open16 handed out, also on failure, has been closed and the
\* statement finalized; and the temporary file is gone only once the
\* connection on it is closed.
C10_HandleLifecycle ==
    \A s \in Stores :
        /\ steps[s].returned => /\ db[s] \in {"none", "closed"}
                                /\ stmt[s] \in {"none", "finalized"}
        /\ (steps[s].returned /\ tempDbPath[s] # "" /\ ~Residual(s))
             => db[s] # "open"

=============================================================================
